---- MODULE Spec2Model ----
(***************************************************************************)
(* Hardware-Benchmark-tool: the benchmark controller (main.py), the four   *)
(* benchmark run loops, the DataNormalizer and the CapacityPlanner.        *)
(*                                                                         *)
(* Numbers.  Python dicts are functions from strings.  A raw metric value  *)
(* is an integer; a mean is the exact fraction [num, den].  A score is     *)
(* kept in hundredths of a point (54.55 is 5455), which is the resolution  *)
(* round(x, 2) leaves.  The fixed overall weights are kept in tenths and   *)
(* the workload weights in hundredths.                                     *)
(***************************************************************************)
EXTENDS Integers, Sequences, FiniteSets, TLC

\* ------------------------------------------------------------------ bounds
MaxRuns == 2
MaxSystems == 2

\* ----------------------------------------------------------- dict helpers
EmptyDict == [k \in {} |-> 0]

Put(d, k, v) == [x \in (DOMAIN d) \cup {k} |-> IF x = k THEN v ELSE d[x]]

Has(d, k) == k \in DOMAIN d

\* d.get(k, default)
Get(d, k, default) == IF k \in DOMAIN d THEN d[k] ELSE default

\* ------------------------------------------------------------- arithmetic
RECURSIVE GCD(_, _)
GCD(a, b) == IF b = 0 THEN a ELSE GCD(b, a % b)

\* n / d rounded to the nearest integer, a tie going to the even one; n >= 0,
\* d > 0.  Python rounds the binary float instead, so that a decimal tie can
\* go to either neighbour there; the formulas below hold for both.
RoundDiv(n, d) ==
    LET q == n \div d
        r == n % d
    IN  IF 2 * r > d \/ (2 * r = d /\ q % 2 = 1) THEN q + 1 ELSE q

\* round(a * k / d), the fraction reduced first so the product stays small.
ScaledRound(a, k, d) ==
    LET g == GCD(k, d)
    IN  RoundDiv(a * (k \div g), d \div g)

Frac(n, d) == [num |-> n, den |-> d]

\* Python's None where a number is expected.
None == Frac(0, 0)

Zero == Frac(0, 1)

RECURSIVE SumSeq(_)
SumSeq(s) == IF s = <<>> THEN 0 ELSE Head(s) + SumSeq(Tail(s))

RECURSIVE MinSeq(_)
MinSeq(s) ==
    IF Len(s) = 1 THEN s[1]
    ELSE LET m == MinSeq(Tail(s)) IN IF s[1] <= m THEN s[1] ELSE m

RECURSIVE MaxSeq(_)
MaxSeq(s) ==
    IF Len(s) = 1 THEN s[1]
    ELSE LET m == MaxSeq(Tail(s)) IN IF s[1] >= m THEN s[1] ELSE m

RECURSIVE Insert(_, _)
Insert(x, s) ==
    IF s = <<>> THEN <<x>>
    ELSE IF x <= Head(s) THEN <<x>> \o s
    ELSE <<Head(s)>> \o Insert(x, Tail(s))

RECURSIVE Sorted(_)
Sorted(s) == IF s = <<>> THEN <<>> ELSE Insert(Head(s), Sorted(Tail(s)))

\* ------------------------------------------- aggregate_results (benchmarks)
\* [r.get(metric) for r in results if metric in r]
\* MetricValues taking 0 for a record without the metric.
MetricValues_missing_as_zero(results, metric) ==
    [i \in 1..Len(results) |-> Get(results[i], metric, 0)]

MetricValues(results, metric) ==
    LET having == SelectSeq(results, LAMBDA r : Has(r, metric))
    IN  [i \in 1..Len(having) |-> having[i][metric]]

\* statistics.median: the middle value, or the mean of the two middle ones.
Median(values) ==
    LET s == Sorted(values)
        n == Len(s)
    IN  IF n % 2 = 1 THEN Frac(s[(n + 1) \div 2], 1)
        ELSE Frac(s[n \div 2] + s[n \div 2 + 1], 2)

\* statistics.stdev squared: the sample (n-1) variance, as an exact fraction.
\* The values are shifted by their minimum first, which leaves it unchanged.
StdevSquared(values) ==
    LET n == Len(values)
        m == MinSeq(values)
        d == [i \in 1..n |-> values[i] - m]
        sq == [i \in 1..n |-> d[i] * d[i]]
    IN  Frac(n * SumSeq(sq) - SumSeq(d) * SumSeq(d), n * (n - 1))

\* variance_percent 0
ZeroVariance == [stdev |-> Zero, mean |-> Frac(1, 1)]

\* MetricStatistics dividing stdev by the mean whatever the mean and the
\* number of values are.
MetricStatistics_unguarded(values) ==
    LET n == Len(values)
        mean == Frac(SumSeq(values), n)
        stdev == IF n > 1 THEN StdevSquared(values) ELSE Zero
    IN  [mean |-> mean,
         median |-> Median(values),
         stdev |-> stdev,
         min |-> MinSeq(values),
         max |-> MaxSeq(values),
         variance_percent |-> [stdev |-> stdev, mean |-> mean]]

\* The statistics entry of one metric.  stdev is kept squared, and
\* variance_percent (stdev / mean * 100) as the pair it is computed from.
MetricStatistics(values) ==
    LET n == Len(values)
        mean == Frac(SumSeq(values), n)
    IN  [mean |-> mean,
         median |-> Median(values),
         stdev |-> IF n > 1 THEN StdevSquared(values) ELSE Zero,
         min |-> MinSeq(values),
         max |-> MaxSeq(values),
         variance_percent |->
             IF n > 1 /\ mean.num > 0
             THEN [stdev |-> StdevSquared(values), mean |-> mean]
             ELSE ZeroVariance]

aggregate_results(results, metrics) ==
    IF results = <<>> THEN EmptyDict
    ELSE [runs |-> results,
          statistics |->
              [m \in {x \in metrics : MetricValues(results, x) # <<>>} |->
                  MetricStatistics(MetricValues(results, m))]]

CPUMetrics == {"events_per_second", "latency_avg_ms", "latency_95p_ms"}

MemoryMetrics == {"transfer_rate_mib_sec", "operations_per_second", "latency_avg_ms"}

DiskMetrics == {"iops", "bandwidth_kb", "latency_mean_us"}

NetworkMetrics == {"bandwidth_mbps", "bandwidth_received_mbps", "retransmits"}

CPU_aggregate_results(results) == aggregate_results(results, CPUMetrics)

Memory_aggregate_results(results) == aggregate_results(results, MemoryMetrics)

Disk_aggregate_results(results) == aggregate_results(results, DiskMetrics)

Network_aggregate_results(results) == aggregate_results(results, NetworkMetrics)

\* ---------------------------------------------------------- DataNormalizer
Patterns == <<"randread", "randwrite", "read", "write">>

PatternSet == {Patterns[i] : i \in 1..Len(Patterns)}

Domains == {"cpu", "memory", "disk", "network"}

baselines ==
    [cpu |-> [events_per_second |-> [min |-> 100, max |-> 10000, higher_better |-> TRUE]],
     memory |-> [transfer_rate_mib_sec |-> [min |-> 1000, max |-> 50000, higher_better |-> TRUE]],
     disk |->
        [randread |-> [iops |-> [min |-> 100, max |-> 100000, higher_better |-> TRUE]],
         randwrite |-> [iops |-> [min |-> 100, max |-> 100000, higher_better |-> TRUE]],
         read |-> [bandwidth_kb |-> [min |-> 10000, max |-> 5000000, higher_better |-> TRUE]],
         write |-> [bandwidth_kb |-> [min |-> 10000, max |-> 5000000, higher_better |-> TRUE]]],
     network |-> [bandwidth_mbps |-> [min |-> 10, max |-> 10000, higher_better |-> TRUE]]]

\* normalize_value that takes every metric as lower-is-better.
normalize_value_lower_better(value, min_val, max_val, higher_better) ==
    IF value = None THEN 0
    ELSE
        LET d == value.den
            inner == IF value.num < max_val * d THEN value.num ELSE max_val * d
            clamped == IF inner > min_val * d THEN inner ELSE min_val * d
        IN  ScaledRound(max_val * d - clamped, 10000, (max_val - min_val) * d)

\* normalize_value that takes every metric as higher-is-better.
normalize_value_higher_better(value, min_val, max_val, higher_better) ==
    IF value = None THEN 0
    ELSE
        LET d == value.den
            inner == IF value.num < max_val * d THEN value.num ELSE max_val * d
            clamped == IF inner > min_val * d THEN inner ELSE min_val * d
        IN  ScaledRound(clamped - min_val * d, 10000, (max_val - min_val) * d)

\* normalize_value without the clamp to [min_val, max_val].
normalize_value_unclamped(value, min_val, max_val, higher_better) ==
    IF value = None THEN 0
    ELSE
        LET d == value.den
            part == IF higher_better THEN value.num - min_val * d
                    ELSE max_val * d - value.num
            span == (max_val - min_val) * d
        IN  IF part >= 0 THEN ScaledRound(part, 10000, span)
            ELSE 0 - ScaledRound(0 - part, 10000, span)

\* The score of a value, in hundredths.  The value is the fraction num/den;
\* clamped is kept over the same denominator.
normalize_value(value, min_val, max_val, higher_better) ==
    IF value = None THEN 0
    ELSE
        LET d == value.den
            inner == IF value.num < max_val * d THEN value.num ELSE max_val * d
            clamped == IF inner > min_val * d THEN inner ELSE min_val * d
            part == IF higher_better THEN clamped - min_val * d
                    ELSE max_val * d - clamped
        IN  ScaledRound(part, 10000, (max_val - min_val) * d)

\* A score entry of cpu, memory, network or one disk pattern.
\* An entry that scores a missing or None mean as the best case.
ScoreEntry_missing_as_best(stats, metric, baseline) ==
    LET raw == Get(Get(stats, metric, EmptyDict), "mean", Zero)
    IN  [score |-> IF ~Has(Get(stats, metric, EmptyDict), "mean") \/ raw = None
                   THEN 10000
                   ELSE normalize_value(raw, baseline.min, baseline.max,
                                        baseline.higher_better),
         raw_value |-> raw,
         metric |-> metric,
         variance |-> Get(Get(stats, metric, EmptyDict), "variance_percent",
                          ZeroVariance)]

ScoreEntry(stats, metric, baseline) ==
    LET raw == Get(Get(stats, metric, EmptyDict), "mean", Zero)
    IN  [score |-> normalize_value(raw, baseline.min, baseline.max,
                                   baseline.higher_better),
         raw_value |-> raw,
         metric |-> metric,
         variance |-> Get(Get(stats, metric, EmptyDict), "variance_percent",
                          ZeroVariance)]

\* normalize_cpu giving an errored input a score of 0.
normalize_cpu_scores_error(cpu_results) ==
    IF Has(cpu_results, "error") THEN Put(cpu_results, "score", 0)
    ELSE ScoreEntry(Get(cpu_results, "statistics", EmptyDict),
                    "events_per_second", baselines.cpu.events_per_second)

normalize_cpu(cpu_results) ==
    IF Has(cpu_results, "error") THEN cpu_results
    ELSE ScoreEntry(Get(cpu_results, "statistics", EmptyDict),
                    "events_per_second", baselines.cpu.events_per_second)

normalize_memory(memory_results) ==
    IF Has(memory_results, "error") THEN memory_results
    ELSE ScoreEntry(Get(memory_results, "statistics", EmptyDict),
                    "transfer_rate_mib_sec", baselines.memory.transfer_rate_mib_sec)

normalize_network(network_results) ==
    IF Has(network_results, "error") THEN network_results
    ELSE ScoreEntry(Get(network_results, "statistics", EmptyDict),
                    "bandwidth_mbps", baselines.network.bandwidth_mbps)

\* 'rand' in test_type
IsRand(test_type) == test_type \in {"randread", "randwrite"}

\* One pattern's entry of normalize_disk (the body of its loop).
normalize_disk_pattern(test_type, test_data) ==
    IF Has(test_data, "error") THEN test_data
    ELSE IF IsRand(test_type)
         THEN ScoreEntry(Get(test_data, "statistics", EmptyDict), "iops",
                         baselines.disk[test_type].iops)
         ELSE ScoreEntry(Get(test_data, "statistics", EmptyDict), "bandwidth_kb",
                         baselines.disk[test_type].bandwidth_kb)

RECURSIVE SumOver(_, _)
SumOver(f, S) ==
    IF S = {} THEN 0
    ELSE LET x == CHOOSE y \in S : TRUE IN f[x] + SumOver(f, S \ {x})

\* disk_average_score with an errored pattern counted as a score of 0.
disk_average_score_errors_as_zero(entries) ==
    LET scored == {t \in DOMAIN entries : Has(entries[t], "score")}
        scores == [t \in scored |-> entries[t].score]
    IN  IF scored # {}
        THEN RoundDiv(SumOver(scores, scored), Cardinality(DOMAIN entries))
        ELSE 0

\* round(sum(scores) / len(scores), 2) if scores else 0
disk_average_score(entries) ==
    LET scored == {t \in DOMAIN entries : Has(entries[t], "score")}
        scores == [t \in scored |-> entries[t].score]
    IN  IF scored # {} THEN RoundDiv(SumOver(scores, scored), Cardinality(scored))
        ELSE 0

normalize_disk(disk_results) ==
    LET present == PatternSet \cap DOMAIN disk_results
        entries == [t \in present |-> normalize_disk_pattern(t, disk_results[t])]
    IN  Put(entries, "average_score", disk_average_score(entries))

\* The fixed weights of calculate_overall_score, in tenths.
weights == [cpu |-> 3, memory |-> 2, disk |-> 3, network |-> 2]

\* The score calculate_overall_score reads for one component.
component_score(normalized, component) ==
    IF component = "disk" THEN Get(normalized[component], "average_score", 0)
    ELSE Get(normalized[component], "score", 0)

\* calculate_overall_score dividing by the sum of all four weights.
calculate_overall_score_all_weights(normalized) ==
    LET present == Domains \cap DOMAIN normalized
        total_score == SumOver([c \in present |->
                                   component_score(normalized, c) * weights[c]], present)
    IN  RoundDiv(total_score, SumOver(weights, Domains))

calculate_overall_score(normalized) ==
    LET present == Domains \cap DOMAIN normalized
        total_score == SumOver([c \in present |->
                                   component_score(normalized, c) * weights[c]], present)
        total_weight == SumOver([c \in present |-> weights[c]], present)
    IN  IF total_weight > 0 THEN RoundDiv(total_score, total_weight) ELSE 0

\* normalize giving a domain that is absent from the input an error entry.
normalize_absent_as_error(results) ==
    LET normalized == [c \in Domains |->
                          IF ~Has(results, c) THEN [error |-> "not run"]
                          ELSE CASE c = "cpu" -> normalize_cpu(results[c])
                                 [] c = "memory" -> normalize_memory(results[c])
                                 [] c = "disk" -> normalize_disk(results[c])
                                 [] c = "network" -> normalize_network(results[c])]
    IN  Put(normalized, "overall_score", calculate_overall_score(normalized))

normalize(results) ==
    LET present == Domains \cap DOMAIN results
        normalized == [c \in present |->
                          CASE c = "cpu" -> normalize_cpu(results[c])
                            [] c = "memory" -> normalize_memory(results[c])
                            [] c = "disk" -> normalize_disk(results[c])
                            [] c = "network" -> normalize_network(results[c])]
    IN  Put(normalized, "overall_score", calculate_overall_score(normalized))

\* ------------------------------------------------------ BenchmarkController
VARIABLES
    config,              \* BenchmarkController.config
    results,             \* BenchmarkController.results
    normalized_results,  \* BenchmarkController.normalized_results
    files,               \* the files generate_report has written, by name
    pc,                  \* where BenchmarkController.run stands
    all_results,         \* the records of the run-set under way (test_results for disk)
    result,              \* the record run_single_test returned last in this run-set
    process,             \* what subprocess.run did in that run_single_test
    test_idx,            \* DiskBenchmark.run: index of test_type in test_types
    disk_all_results,    \* DiskBenchmark.run: all_results
    systems,             \* CapacityPlanner.systems
    recommendations,     \* what recommend_for_workload returned last
    report,              \* what generate_recommendation_report did last
    arguments,           \* what normalize_value is called with, for two values
    scores,              \* what normalize_value returned for the two values
    normalizer,          \* the DataNormalizer the normalize calls share
    calls                \* the normalize calls under way on it

vars == <<config, results, normalized_results, files, pc, all_results, result, process,
          test_idx, disk_all_results, systems, recommendations, report,
          arguments, scores, normalizer, calls>>

controller_vars == <<config, results, normalized_results, files, pc, all_results,
                     result, process, test_idx, disk_all_results>>

planner_vars == <<systems, recommendations, report>>

value_vars == <<arguments, scores, normalizer, calls>>

\* What run_single_test can return: an error record, or the parsed metrics.
TimedOut == [error |-> "Benchmark timed out"]

\* What subprocess.run did: it raised, or the tool exited with returncode and
\* wrote stdout.
Raised(exception) == [raised |-> exception]

Completed(returncode, stdout) == [returncode |-> returncode, stdout |-> stdout]

\* The output of sysbench is the numbers it prints, by the text before them; a
\* run that fails prints a FATAL line and none of them.
CPUProcesses ==
    {Raised("TimeoutExpired"),
     Completed(1, [FATAL |-> 1]),
     Completed(0, [f \in {"events per second:"} |-> 5500])}

MemoryProcesses ==
    {Raised("TimeoutExpired"),
     Completed(0, [f \in {"MiB/sec"} |-> 25500])}

\* The output of iperf3 -J and of fio is JSON text or not; bits_per_second is
\* kept in thousands. iperf3 that cannot reach the server exits with 1 and
\* prints an object with an error member and no end member.
NotJSON == [json |-> FALSE]

JSON(data) == [json |-> TRUE, data |-> data]

NetworkProcesses ==
    {Raised("TimeoutExpired"),
     Completed(1, JSON([error |-> "unable to connect to server"])),
     Completed(0, JSON([end |-> [sum_sent |-> [bits_per_second |-> 5005000,
                                               bytes |-> 6256]]]))}

DiskProcesses ==
    LET io_data == [iops |-> 50050, bw |-> 2505000,
                    lat_ns |-> [mean |-> 20000, stddev |-> 2000]]
    IN  {Completed(1, NotJSON),
         Completed(0, JSON([jobs |-> <<[read |-> io_data, write |-> io_data]>>]))}

\* re.search finds the number behind a text, or nothing.
CPU_parse_output(output) ==
    LET patterns == [events_per_second |-> "events per second:",
                     total_events |-> "total number of events:",
                     latency_avg_ms |-> "avg:",
                     latency_min_ms |-> "min:",
                     latency_max_ms |-> "max:",
                     latency_95p_ms |-> "95th percentile:"]
    IN  [k \in {x \in DOMAIN patterns : Has(output, patterns[x])} |->
            output[patterns[k]]]

Memory_parse_output(output) ==
    LET patterns == [transfer_rate_mib_sec |-> "MiB/sec",
                     total_operations |-> "total number of events:",
                     operations_per_second |-> "events per second:",
                     latency_avg_ms |-> "avg:"]
    IN  [k \in {x \in DOMAIN patterns : Has(output, patterns[x])} |->
            output[patterns[k]]]

Network_parse_output(output) ==
    IF ~output.json THEN [error |-> "Failed to parse iperf3 output"]
    ELSE LET data == output.data
             protocol_only == [protocol |-> "tcp"]
         IN  IF ~Has(data, "end") THEN protocol_only
             ELSE IF ~Has(data["end"], "sum_sent")
                     \/ ~Has(data["end"]["sum_sent"], "bits_per_second")
                     \/ ~Has(data["end"]["sum_sent"], "bytes")
                  THEN [error |-> "Failed to parse iperf3 output"]
                  ELSE LET summary == data["end"]["sum_sent"]
                           sent == [protocol |-> "tcp",
                                    bandwidth_mbps |-> summary["bits_per_second"] \div 1000,
                                    bytes_transferred |-> summary["bytes"],
                                    retransmits |-> Get(summary, "retransmits", 0)]
                       IN  IF Has(data["end"], "sum_received")
                           THEN Put(sent, "bandwidth_received_mbps",
                                    data["end"]["sum_received"]["bits_per_second"] \div 1000)
                           ELSE sent

Disk_parse_output(output, test_type) ==
    IF ~output.json \/ ~Has(output.data, "jobs")
    THEN [error |-> "Failed to parse fio output"]
    ELSE LET job == output.data["jobs"][1]
             io_data == IF test_type \in {"randread", "read"} THEN job["read"]
                        ELSE job["write"]
         IN  [test_type |-> test_type,
              iops |-> io_data["iops"],
              bandwidth_kb |-> io_data["bw"],
              latency_mean_us |-> io_data["lat_ns"]["mean"] \div 1000,
              latency_stddev_us |-> io_data["lat_ns"]["stddev"] \div 1000]

\* The error record of the except clause that catches exception.
Caught(exception, tool) ==
    CASE exception = "TimeoutExpired" -> TimedOut
      [] exception = "FileNotFoundError" -> [error |-> tool \o " not found. Please install it."]
      [] OTHER -> [error |-> exception]

\* run_single_test: the parsed stdout, whatever the returncode, or the error
\* record of the exception caught.
CPU_run_single_test(p) ==
    IF Has(p, "raised") THEN Caught(p.raised, "sysbench") ELSE CPU_parse_output(p.stdout)

Memory_run_single_test(p) ==
    IF Has(p, "raised") THEN Caught(p.raised, "sysbench")
    ELSE Memory_parse_output(p.stdout)

Network_run_single_test(p) ==
    IF Has(p, "raised") THEN Caught(p.raised, "iperf3") ELSE Network_parse_output(p.stdout)

Disk_run_single_test(p, test_type) ==
    IF Has(p, "raised") THEN Caught(p.raised, "fio")
    ELSE Disk_parse_output(p.stdout, test_type)

Configs ==
    [cpu : [enabled : BOOLEAN], memory : [enabled : BOOLEAN],
     disk : [enabled : BOOLEAN],
     network : [enabled : BOOLEAN, server_ip : {"", "10.0.0.2"}],
     runs : 0..MaxRuns]

Init ==
    /\ config \in Configs
    /\ results = EmptyDict
    /\ normalized_results = EmptyDict
    /\ files = EmptyDict
    /\ pc = "cpu"
    /\ all_results = <<>>
    /\ result = EmptyDict
    /\ process = EmptyDict
    /\ test_idx = 1
    /\ disk_all_results = EmptyDict
    /\ systems = <<>>
    /\ recommendations = <<>>
    /\ report = [status |-> "none"]
    /\ arguments = EmptyDict
    /\ scores = <<>>
    /\ normalizer = [baselines |-> baselines]
    /\ calls = <<>>

\* run_all_benchmarks: the test that guards one benchmark, and the call of run.
StartBenchmark(at, enabled, run_pc, skip_pc) ==
    /\ pc = at
    /\ IF enabled
       THEN /\ pc' = run_pc
            /\ all_results' = <<>>
            /\ result' = EmptyDict
            /\ process' = EmptyDict
       ELSE /\ pc' = skip_pc
            /\ UNCHANGED <<all_results, result, process>>
    /\ UNCHANGED <<config, results, normalized_results, files, test_idx,
                   disk_all_results>>
    /\ UNCHANGED planner_vars
    /\ UNCHANGED value_vars

\* RunStep leaving run_all_benchmarks at the first error record.
RunStep_error_ends_suite(at, domain, run_single_test, aggregated, next_pc) ==
    /\ pc = at
    /\ IF Len(all_results) < config.runs
       THEN \E p \in DOMAIN run_single_test :
               LET r == run_single_test[p] IN
               /\ process' = p
               /\ result' = r
               /\ IF Has(r, "error")
                  THEN /\ results' = Put(results, domain, r)
                       /\ pc' = "normalize"
                       /\ UNCHANGED all_results
                  ELSE /\ all_results' = Append(all_results, r)
                       /\ UNCHANGED <<results, pc>>
       ELSE /\ results' = Put(results, domain, aggregated)
            /\ pc' = next_pc
            /\ UNCHANGED <<all_results, result, process>>
    /\ UNCHANGED <<config, normalized_results, files, test_idx, disk_all_results>>
    /\ UNCHANGED planner_vars
    /\ UNCHANGED value_vars

\* One pass of the loop of run (cpu, memory, network), or its end: the first
\* error record is returned at once, and the statistics after num_runs records.
\* run_single_test gives the record for each thing subprocess.run can do.
RunStep(at, domain, run_single_test, aggregated, next_pc) ==
    /\ pc = at
    /\ IF Len(all_results) < config.runs
       THEN \E p \in DOMAIN run_single_test :
               LET r == run_single_test[p] IN
               /\ process' = p
               /\ result' = r
               /\ IF Has(r, "error")
                  THEN /\ results' = Put(results, domain, r)
                       /\ pc' = next_pc
                       /\ UNCHANGED all_results
                  ELSE /\ all_results' = Append(all_results, r)
                       /\ UNCHANGED <<results, pc>>
       ELSE /\ results' = Put(results, domain, aggregated)
            /\ pc' = next_pc
            /\ UNCHANGED <<all_results, result, process>>
    /\ UNCHANGED <<config, normalized_results, files, test_idx, disk_all_results>>
    /\ UNCHANGED planner_vars
    /\ UNCHANGED value_vars

cpu_start == StartBenchmark("cpu", config.cpu.enabled, "cpu_run", "memory")

CPUBenchmark_run ==
    RunStep("cpu_run", "cpu", [p \in CPUProcesses |-> CPU_run_single_test(p)],
            CPU_aggregate_results(all_results), "memory")

memory_start == StartBenchmark("memory", config.memory.enabled, "memory_run", "disk")

MemoryBenchmark_run ==
    RunStep("memory_run", "memory",
            [p \in MemoryProcesses |-> Memory_run_single_test(p)],
            Memory_aggregate_results(all_results), "disk")

network_start ==
    StartBenchmark("network", config.network.enabled /\ config.network.server_ip # "",
                   "network_run", "normalize")

NetworkBenchmark_run ==
    RunStep("network_run", "network",
            [p \in NetworkProcesses |-> Network_run_single_test(p)],
            Network_aggregate_results(all_results), "normalize")

disk_start ==
    /\ pc = "disk"
    /\ IF config.disk.enabled
       THEN /\ pc' = "disk_run"
            /\ disk_all_results' = EmptyDict
            /\ test_idx' = 1
            /\ all_results' = <<>>
            /\ result' = EmptyDict
            /\ process' = EmptyDict
       ELSE /\ pc' = "network"
            /\ UNCHANGED <<disk_all_results, test_idx, all_results, result, process>>
    /\ UNCHANGED <<config, results, normalized_results, files>>
    /\ UNCHANGED planner_vars
    /\ UNCHANGED value_vars

\* DiskBenchmark.run: one pass of the inner loop; an error record is stored
\* under the pattern and the loop is left.
DiskBenchmark_run_test ==
    /\ pc = "disk_run"
    /\ Len(all_results) < config.runs
    /\ \E p \in DiskProcesses :
          LET r == Disk_run_single_test(p, Patterns[test_idx]) IN
          /\ process' = p
          /\ result' = r
          /\ IF Has(r, "error")
             THEN /\ disk_all_results' = Put(disk_all_results, Patterns[test_idx], r)
                  /\ pc' = "disk_after"
                  /\ UNCHANGED all_results
             ELSE /\ all_results' = Append(all_results, r)
                  /\ UNCHANGED <<disk_all_results, pc>>
    /\ UNCHANGED <<config, results, normalized_results, files, test_idx>>
    /\ UNCHANGED planner_vars
    /\ UNCHANGED value_vars

\* DiskBenchmark.run: "if test_results:" after the inner loop.
DiskBenchmark_run_after ==
    /\ \/ pc = "disk_after"
       \/ pc = "disk_run" /\ Len(all_results) >= config.runs
    /\ disk_all_results' =
          IF all_results # <<>>
          THEN Put(disk_all_results, Patterns[test_idx],
                   Disk_aggregate_results(all_results))
          ELSE disk_all_results
    /\ pc' = "disk_next"
    /\ UNCHANGED <<config, results, normalized_results, files, all_results, result, process,
                   test_idx>>
    /\ UNCHANGED planner_vars
    /\ UNCHANGED value_vars

\* DiskBenchmark.run that returns after a pattern whose run-set ended in an error.
DiskBenchmark_run_next_error_returns ==
    /\ pc = "disk_next"
    /\ IF test_idx < Len(Patterns) /\ ~Has(result, "error")
       THEN /\ test_idx' = test_idx + 1
            /\ all_results' = <<>>
            /\ result' = EmptyDict
            /\ process' = EmptyDict
            /\ pc' = "disk_run"
            /\ UNCHANGED results
       ELSE /\ results' = Put(results, "disk", disk_all_results)
            /\ pc' = "network"
            /\ UNCHANGED <<test_idx, all_results, result, process>>
    /\ UNCHANGED <<config, normalized_results, files, disk_all_results>>
    /\ UNCHANGED planner_vars
    /\ UNCHANGED value_vars

\* DiskBenchmark.run: the next test_type, or the return to run_all_benchmarks.
DiskBenchmark_run_next ==
    /\ pc = "disk_next"
    /\ IF test_idx < Len(Patterns)
       THEN /\ test_idx' = test_idx + 1
            /\ all_results' = <<>>
            /\ result' = EmptyDict
            /\ process' = EmptyDict
            /\ pc' = "disk_run"
            /\ UNCHANGED results
       ELSE /\ results' = Put(results, "disk", disk_all_results)
            /\ pc' = "network"
            /\ UNCHANGED <<test_idx, all_results, result, process>>
    /\ UNCHANGED <<config, normalized_results, files, disk_all_results>>
    /\ UNCHANGED planner_vars
    /\ UNCHANGED value_vars

\* normalize_results that may also begin before the network benchmark.
normalize_results_early ==
    /\ pc \in {"network", "normalize"}
    /\ normalized_results' = normalize(results)
    /\ pc' = "report"
    /\ UNCHANGED <<config, results, files, all_results, result, process, test_idx,
                   disk_all_results>>
    /\ UNCHANGED planner_vars
    /\ UNCHANGED value_vars

normalize_results ==
    /\ pc = "normalize"
    /\ normalized_results' = normalize(results)
    /\ pc' = "report"
    /\ UNCHANGED <<config, results, files, all_results, result, process, test_idx,
                   disk_all_results>>
    /\ UNCHANGED planner_vars
    /\ UNCHANGED value_vars

generate_report ==
    /\ pc = "report"
    /\ files' = [f \in {"raw_results.json", "normalized_results.json",
                         "benchmark_report.txt", "benchmark_report.html"} |->
                    CASE f = "raw_results.json" -> results
                      [] f = "normalized_results.json" -> normalized_results
                      [] OTHER -> [raw_results |-> results,
                                   normalized_results |-> normalized_results]]
    /\ pc' = "done"
    /\ UNCHANGED <<config, results, normalized_results, all_results, result, process,
                   test_idx, disk_all_results>>
    /\ UNCHANGED planner_vars
    /\ UNCHANGED value_vars

Next ==
    \/ cpu_start
    \/ CPUBenchmark_run
    \/ memory_start
    \/ MemoryBenchmark_run
    \/ disk_start
    \/ DiskBenchmark_run_test
    \/ DiskBenchmark_run_after
    \/ DiskBenchmark_run_next
    \/ network_start
    \/ NetworkBenchmark_run
    \/ normalize_results
    \/ generate_report

Spec == Init /\ [][Next]_vars

\* ------------------------------------------- normalize on aggregated inputs
\* The statistics of a run-set of one run that measured v for the metric.
OneRun(metric, v) == aggregate_results(<<[m \in {metric} |-> v]>>, {metric})

\* A run-set whose output carried no metric at all: statistics is empty.
NoMetric == aggregate_results(<<EmptyDict>>, {})

\* Two runs whose mean is no whole number.
TwoRuns(metric, v, w) ==
    aggregate_results(<<[m \in {metric} |-> v], [m \in {metric} |-> w]>>, {metric})

CPUInputs == {TimedOut, NoMetric, TwoRuns("events_per_second", 5500, 5601)} \cup
             {OneRun("events_per_second", v) : v \in {50, 5500, 20000}}

\* Statistics, as read back from a results file, whose mean is null.
NoneMean(metric) ==
    [runs |-> <<EmptyDict>>, statistics |-> [m \in {metric} |-> [mean |-> None]]]

MemoryInputs == {TimedOut, NoneMean("transfer_rate_mib_sec")} \cup
                {OneRun("transfer_rate_mib_sec", v) : v \in {25500, 60000}}

NetworkInputs == {TimedOut, NoMetric, OneRun("bandwidth_mbps", 3340)}

DiskPatternInputs(test_type) ==
    {[error |-> "Failed to parse fio output"]} \cup
    CASE test_type = "randread" -> {OneRun("iops", v) : v \in {50, 80020}}
      [] test_type = "randwrite" -> {OneRun("iops", v) : v \in {33400, 200000}}
      [] test_type = "read" -> {OneRun("bandwidth_kb", v) : v \in {1673333, 3004000}}
      [] test_type = "write" ->
            {NoMetric} \cup {OneRun("bandwidth_kb", v) : v \in {2006000, 9000000}}

DiskInputs ==
    {EmptyDict} \cup
    {[randread |-> a, randwrite |-> b, read |-> c, write |-> d] :
        a \in DiskPatternInputs("randread"), b \in DiskPatternInputs("randwrite"),
        c \in DiskPatternInputs("read"), d \in DiskPatternInputs("write")}

\* Nothing, or one of S: a domain that did not run, or its result.
Optional(S) == {<<>>} \cup {<<x>> : x \in S}

\* The results run_all_benchmarks can leave behind: any set of domains, each
\* with an error record or statistics.
RawResults ==
    {LET given == [cpu |-> c, memory |-> m, disk |-> d, network |-> n]
     IN  [k \in {x \in Domains : given[x] # <<>>} |-> given[k][1]] :
        c \in Optional(CPUInputs), m \in Optional(MemoryInputs),
        d \in Optional(DiskInputs), n \in Optional(NetworkInputs)}

\* BenchmarkController.run after run_all_benchmarks has returned.
InitNorm ==
    /\ results \in RawResults
    /\ config = [cpu |-> [enabled |-> Has(results, "cpu")],
                 memory |-> [enabled |-> Has(results, "memory")],
                 disk |-> [enabled |-> Has(results, "disk")],
                 network |-> [enabled |-> Has(results, "network"),
                              server_ip |-> "10.0.0.2"],
                 runs |-> 1]
    /\ normalized_results = EmptyDict
    /\ files = EmptyDict
    /\ pc = "normalize"
    /\ all_results = <<>>
    /\ result = EmptyDict
    /\ process = EmptyDict
    /\ test_idx = 1
    /\ disk_all_results = EmptyDict
    /\ systems = <<>>
    /\ recommendations = <<>>
    /\ report = [status |-> "none"]
    /\ arguments = EmptyDict
    /\ scores = <<>>
    /\ normalizer = [baselines |-> baselines]
    /\ calls = <<>>

NextNorm ==
    \/ normalize_results
    \/ generate_report

SpecNorm == InitNorm /\ [][NextNorm]_vars

\* --------------------------------------------------------- CapacityPlanner
\* Profiles in which compute_intensive weighs cpu at 0.80: its weights sum to
\* 1.2.
workload_profiles_overweight ==
    [web_server |->
        [cpu_weight |-> 35, memory_weight |-> 30, disk_weight |-> 20, network_weight |-> 15,
         min_scores |-> [cpu |-> 60, memory |-> 50, disk |-> 40, network |-> 50]],
     database |->
        [cpu_weight |-> 30, memory_weight |-> 35, disk_weight |-> 30, network_weight |-> 5,
         min_scores |-> [cpu |-> 70, memory |-> 80, disk |-> 75, network |-> 30]],
     file_server |->
        [cpu_weight |-> 15, memory_weight |-> 20, disk_weight |-> 50, network_weight |-> 15,
         min_scores |-> [cpu |-> 40, memory |-> 50, disk |-> 80, network |-> 60]],
     compute_intensive |->
        [cpu_weight |-> 80, memory_weight |-> 25, disk_weight |-> 10, network_weight |-> 5,
         min_scores |-> [cpu |-> 85, memory |-> 70, disk |-> 40, network |-> 30]],
     general_purpose |->
        [cpu_weight |-> 30, memory_weight |-> 25, disk_weight |-> 25, network_weight |-> 20,
         min_scores |-> [cpu |-> 60, memory |-> 60, disk |-> 60, network |-> 50]]]

\* Weights in hundredths, minimum scores in points.
workload_profiles ==
    [web_server |->
        [cpu_weight |-> 35, memory_weight |-> 30, disk_weight |-> 20, network_weight |-> 15,
         min_scores |-> [cpu |-> 60, memory |-> 50, disk |-> 40, network |-> 50]],
     database |->
        [cpu_weight |-> 30, memory_weight |-> 35, disk_weight |-> 30, network_weight |-> 5,
         min_scores |-> [cpu |-> 70, memory |-> 80, disk |-> 75, network |-> 30]],
     file_server |->
        [cpu_weight |-> 15, memory_weight |-> 20, disk_weight |-> 50, network_weight |-> 15,
         min_scores |-> [cpu |-> 40, memory |-> 50, disk |-> 80, network |-> 60]],
     compute_intensive |->
        [cpu_weight |-> 60, memory_weight |-> 25, disk_weight |-> 10, network_weight |-> 5,
         min_scores |-> [cpu |-> 85, memory |-> 70, disk |-> 40, network |-> 30]],
     general_purpose |->
        [cpu_weight |-> 30, memory_weight |-> 25, disk_weight |-> 25, network_weight |-> 20,
         min_scores |-> [cpu |-> 60, memory |-> 60, disk |-> 60, network |-> 50]]]

\* A cost, or a ratio, is <<>> for None and <<x>> for the number x.
\* Python's truth of an optional number: neither None nor 0.
Truthy(cost) == cost # <<>> /\ cost[1] # 0

\* The fraction n / d in lowest terms (d > 0).
Reduced(n, d) == LET g == GCD(n, d) IN Frac(n \div g, d \div g)

\* a < b for fractions with positive denominators.
FracLess(a, b) == a.num * b.den < b.num * a.den

\* A score whose weights are renormalized over the domains the system has.
calculate_workload_score_renormalized(system, profile) ==
    LET norm == system.normalized
        cpu_score == Get(Get(norm, "cpu", EmptyDict), "score", 0)
        mem_score == Get(Get(norm, "memory", EmptyDict), "score", 0)
        disk_score == Get(Get(norm, "disk", EmptyDict), "average_score", 0)
        net_score == Get(Get(norm, "network", EmptyDict), "score", 0)
        workload_score == cpu_score * profile.cpu_weight
                          + mem_score * profile.memory_weight
                          + disk_score * profile.disk_weight
                          + net_score * profile.network_weight
        present == (IF Has(norm, "cpu") THEN profile.cpu_weight ELSE 0)
                   + (IF Has(norm, "memory") THEN profile.memory_weight ELSE 0)
                   + (IF Has(norm, "disk") THEN profile.disk_weight ELSE 0)
                   + (IF Has(norm, "network") THEN profile.network_weight ELSE 0)
    IN  IF present = 0 THEN 0 ELSE RoundDiv(workload_score, present)

calculate_workload_score(system, profile) ==
    LET norm == system.normalized
        cpu_score == Get(Get(norm, "cpu", EmptyDict), "score", 0)
        mem_score == Get(Get(norm, "memory", EmptyDict), "score", 0)
        disk_score == Get(Get(norm, "disk", EmptyDict), "average_score", 0)
        net_score == Get(Get(norm, "network", EmptyDict), "score", 0)
        workload_score == cpu_score * profile.cpu_weight
                          + mem_score * profile.memory_weight
                          + disk_score * profile.disk_weight
                          + net_score * profile.network_weight
    IN  RoundDiv(workload_score, 100)

\* Requirements checked on the domains the system has only.
check_requirements_present_only(system, profile) ==
    LET norm == system.normalized
        min_scores == profile.min_scores
    IN  /\ Has(norm, "cpu") => Get(norm["cpu"], "score", 0) >= min_scores.cpu * 100
        /\ Has(norm, "memory") => Get(norm["memory"], "score", 0) >= min_scores.memory * 100
        /\ Has(norm, "disk") =>
              Get(norm["disk"], "average_score", 0) >= min_scores.disk * 100
        /\ Has(norm, "network") =>
              Get(norm["network"], "score", 0) >= min_scores.network * 100

check_requirements(system, profile) ==
    LET norm == system.normalized
        min_scores == profile.min_scores
        cpu_score == Get(Get(norm, "cpu", EmptyDict), "score", 0)
        mem_score == Get(Get(norm, "memory", EmptyDict), "score", 0)
        disk_score == Get(Get(norm, "disk", EmptyDict), "average_score", 0)
        net_score == Get(Get(norm, "network", EmptyDict), "score", 0)
    IN  /\ cpu_score >= min_scores.cpu * 100
        /\ mem_score >= min_scores.memory * 100
        /\ disk_score >= min_scores.disk * 100
        /\ net_score >= min_scores.network * 100

\* score / system.get('cost') if system.get('cost') else None; the score is in
\* hundredths, so the ratio is score / (100 * cost).
cost_performance_ratio(score, cost) ==
    IF Truthy(cost) THEN <<Reduced(score, 100 * cost[1])>> ELSE <<>>

\* The recommendation recommend_for_workload builds for one system.
Recommendation(system, profile) ==
    LET score == calculate_workload_score(system, profile)
    IN  [system |-> system.name,
         workload_score |-> score,
         meets_requirements |-> check_requirements(system, profile),
         cost |-> system.cost,
         cost_performance_ratio |-> cost_performance_ratio(score, system.cost)]

\* A sort that puts x before the entries of equal score.
RECURSIVE InsertByScore_unstable(_, _)
InsertByScore_unstable(x, sorted) ==
    IF sorted = <<>> THEN <<x>>
    ELSE IF Head(sorted).workload_score > x.workload_score
         THEN <<Head(sorted)>> \o InsertByScore_unstable(x, Tail(sorted))
         ELSE <<x>> \o sorted

\* list.sort(key = workload_score, reverse = True): stable, so x goes behind
\* every entry whose score is at least its own.
RECURSIVE InsertByScore(_, _)
InsertByScore(x, sorted) ==
    IF sorted = <<>> THEN <<x>>
    ELSE IF Head(sorted).workload_score >= x.workload_score
         THEN <<Head(sorted)>> \o InsertByScore(x, Tail(sorted))
         ELSE <<x>> \o sorted

RECURSIVE SortByScore(_)
SortByScore(recs) ==
    IF recs = <<>> THEN <<>>
    ELSE InsertByScore(recs[Len(recs)], SortByScore(SubSeq(recs, 1, Len(recs) - 1)))

\* A ranking that takes general_purpose for a profile it does not know.
Ranking_unknown_as_general_purpose(loaded, workload_type) ==
    LET profile == IF workload_type \in DOMAIN workload_profiles
                   THEN workload_profiles[workload_type]
                   ELSE workload_profiles["general_purpose"]
    IN  SortByScore([i \in 1..Len(loaded) |-> Recommendation(loaded[i], profile)])

\* What recommend_for_workload returns for the systems loaded.
Ranking(loaded, workload_type) ==
    IF workload_type \notin DOMAIN workload_profiles THEN <<>>
    ELSE SortByScore([i \in 1..Len(loaded) |->
                         Recommendation(loaded[i], workload_profiles[workload_type])])

\* min(with_cost, key = cost_performance_ratio): the first of the smallest.
best_value(with_cost) ==
    LET least == CHOOSE i \in 1..Len(with_cost) :
                    /\ \A j \in 1..Len(with_cost) :
                          ~FracLess(with_cost[j].cost_performance_ratio[1],
                                    with_cost[i].cost_performance_ratio[1])
                    /\ \A j \in 1..(i - 1) :
                          FracLess(with_cost[i].cost_performance_ratio[1],
                                   with_cost[j].cost_performance_ratio[1])
    IN  with_cost[least]

\* The names of the systems of a list of recommendations.
Names(recs) == [i \in 1..Len(recs) |-> recs[i].system]

\* A report that names the best-value system as the best performer.
Report_best_value_as_best(workload_type, recs) ==
    IF \E i \in 1..Len(recs) : Truthy(recs[i].cost) /\ recs[i].workload_score = 0
    THEN [status |-> "raised", error |-> "ZeroDivisionError"]
    ELSE LET with_cost ==
                 SelectSeq(recs, LAMBDA r : /\ r.cost_performance_ratio # <<>>
                                            /\ r.cost_performance_ratio[1].num # 0)
             failed == SelectSeq(recs, LAMBDA r : ~r.meets_requirements)
         IN  [status |-> "written",
              workload_type |-> workload_type,
              ranked |-> recs,
              best_performance |-> IF with_cost # <<>> THEN best_value(with_cost).system
                                   ELSE recs[1].system,
              best_value |-> IF with_cost # <<>> THEN <<best_value(with_cost).system>>
                             ELSE <<>>,
              failed |-> Names(failed)]

\* What generate_recommendation_report does with a non-empty ranking: the
\* ranked listing divides cost by workload_score for every system with a cost.
Report(workload_type, recs) ==
    IF \E i \in 1..Len(recs) : Truthy(recs[i].cost) /\ recs[i].workload_score = 0
    THEN [status |-> "raised", error |-> "ZeroDivisionError"]
    ELSE LET with_cost ==
                 SelectSeq(recs, LAMBDA r : /\ r.cost_performance_ratio # <<>>
                                            /\ r.cost_performance_ratio[1].num # 0)
             failed == SelectSeq(recs, LAMBDA r : ~r.meets_requirements)
         IN  [status |-> "written",
              workload_type |-> workload_type,
              ranked |-> recs,
              best_performance |-> recs[1].system,
              best_value |-> IF with_cost # <<>> THEN <<best_value(with_cost).system>>
                             ELSE <<>>,
              failed |-> Names(failed)]

\* The scores 80, 60 and 90 / 70 / 50 / 40 in raw values.
Measured(cpu, mem, iops, bw, net) ==
    [cpu |-> OneRun("events_per_second", cpu),
     memory |-> OneRun("transfer_rate_mib_sec", mem),
     disk |-> [randread |-> OneRun("iops", iops), randwrite |-> OneRun("iops", iops),
               read |-> OneRun("bandwidth_kb", bw), write |-> OneRun("bandwidth_kb", bw)],
     network |-> OneRun("bandwidth_mbps", net)]

\* The normalized_results.json files there are to load: every domain at 80,
\* every domain at 60, and a run whose only benchmark failed.
NormalizedFiles ==
    {normalize(Measured(8020, 40200, 80020, 4002000, 8002)),
     normalize(Measured(6040, 30400, 60040, 3004000, 6004)),
     normalize([cpu |-> TimedOut])}

Costs == {<<>>, <<0>>, <<500>>, <<1000>>}

SystemNames == <<"A", "B", "C", "D">>

WorkloadTypes == (DOMAIN workload_profiles) \cup {"gaming"}

\* load_system putting the new record first.
load_system_prepends(exists, normalized, cost) ==
    /\ Len(systems) < MaxSystems
    /\ IF exists
       THEN systems' = <<[name |-> SystemNames[Len(systems) + 1],
                          normalized |-> normalized,
                          cost |-> cost]>> \o systems
       ELSE UNCHANGED systems
    /\ UNCHANGED <<recommendations, report>>
    /\ UNCHANGED controller_vars
    /\ UNCHANGED value_vars

\* load_system: False for a directory without normalized_results.json.
load_system(exists, normalized, cost) ==
    /\ Len(systems) < MaxSystems
    /\ IF exists
       THEN systems' = Append(systems, [name |-> SystemNames[Len(systems) + 1],
                                        normalized |-> normalized,
                                        cost |-> cost])
       ELSE UNCHANGED systems
    /\ UNCHANGED <<recommendations, report>>
    /\ UNCHANGED controller_vars
    /\ UNCHANGED value_vars

recommend_for_workload(workload_type) ==
    /\ recommendations' = Ranking(systems, workload_type)
    /\ UNCHANGED <<systems, report>>
    /\ UNCHANGED controller_vars
    /\ UNCHANGED value_vars

generate_recommendation_report(workload_type) ==
    /\ recommendations' = Ranking(systems, workload_type)
    /\ report' = IF recommendations' = <<>> THEN [status |-> "no recommendations"]
                 ELSE Report(workload_type, recommendations')
    /\ UNCHANGED systems
    /\ UNCHANGED controller_vars
    /\ UNCHANGED value_vars

InitPlanner ==
    /\ systems = <<>>
    /\ recommendations = <<>>
    /\ report = [status |-> "none"]
    /\ arguments = EmptyDict
    /\ scores = <<>>
    /\ normalizer = [baselines |-> baselines]
    /\ calls = <<>>
    /\ config = [cpu |-> [enabled |-> TRUE], memory |-> [enabled |-> TRUE],
                 disk |-> [enabled |-> TRUE],
                 network |-> [enabled |-> FALSE, server_ip |-> ""],
                 runs |-> MaxRuns]
    /\ results = EmptyDict
    /\ normalized_results = EmptyDict
    /\ files = EmptyDict
    /\ pc = "cpu"
    /\ all_results = <<>>
    /\ result = EmptyDict
    /\ process = EmptyDict
    /\ test_idx = 1
    /\ disk_all_results = EmptyDict

NextPlanner ==
    \/ \E exists \in BOOLEAN, normalized \in NormalizedFiles, cost \in Costs :
          load_system(exists, normalized, cost)
    \/ \E workload_type \in WorkloadTypes : recommend_for_workload(workload_type)
    \/ \E workload_type \in WorkloadTypes : generate_recommendation_report(workload_type)

SpecPlanner == InitPlanner /\ [][NextPlanner]_vars

\* ------------------------------------------ CapacityPlanner, one system
\* A disk result whose random patterns measured iops and whose sequential
\* patterns measured bw.
DiskMeasured(iops, bw) ==
    [randread |-> OneRun("iops", iops), randwrite |-> OneRun("iops", iops),
     read |-> OneRun("bandwidth_kb", bw), write |-> OneRun("bandwidth_kb", bw)]

\* The normalized_results.json files of runs that measured any set of domains:
\* cpu at 90, 85 or 60, memory at 70 or 80, disk at 50 or 80, network at 40
\* or 60, a failed cpu or network benchmark, a memory output without a metric;
\* and the file of a run that measured the maximum of every baseline.
ScoredFiles ==
    {normalize(Measured(10000, 50000, 100000, 5000000, 10000))} \cup
    {normalize(LET given == [cpu |-> c, memory |-> m, disk |-> d, network |-> n]
               IN  [k \in {x \in Domains : given[x] # <<>>} |-> given[k][1]]) :
        c \in Optional({TimedOut} \cup
                       {OneRun("events_per_second", v) : v \in {9010, 8515, 6040}}),
        m \in Optional({NoMetric} \cup
                       {OneRun("transfer_rate_mib_sec", v) : v \in {35300, 40200}}),
        d \in Optional({DiskMeasured(50050, 2505000), DiskMeasured(80020, 4002000)}),
        n \in Optional({TimedOut} \cup
                       {OneRun("bandwidth_mbps", v) : v \in {4006, 6004}})}

\* A planner after load_system has loaded one system.
InitScoring ==
    /\ systems \in {<<[name |-> SystemNames[1], normalized |-> normalized, cost |-> cost]>> :
                       normalized \in ScoredFiles, cost \in {<<>>, <<1000>>}}
    /\ recommendations = <<>>
    /\ report = [status |-> "none"]
    /\ arguments = EmptyDict
    /\ scores = <<>>
    /\ normalizer = [baselines |-> baselines]
    /\ calls = <<>>
    /\ config = [cpu |-> [enabled |-> TRUE], memory |-> [enabled |-> TRUE],
                 disk |-> [enabled |-> TRUE],
                 network |-> [enabled |-> FALSE, server_ip |-> ""],
                 runs |-> MaxRuns]
    /\ results = EmptyDict
    /\ normalized_results = EmptyDict
    /\ files = EmptyDict
    /\ pc = "cpu"
    /\ all_results = <<>>
    /\ result = EmptyDict
    /\ process = EmptyDict
    /\ test_idx = 1
    /\ disk_all_results = EmptyDict

NextScoring ==
    \/ \E workload_type \in WorkloadTypes : recommend_for_workload(workload_type)
    \/ \E workload_type \in WorkloadTypes : generate_recommendation_report(workload_type)

SpecScoring == InitScoring /\ [][NextScoring]_vars

\* ------------------------------------------------- normalize_value alone
\* The baselines of the table, each also read as lower-is-better.
ValueBaselines ==
    LET table == {baselines.cpu.events_per_second,
                  baselines.memory.transfer_rate_mib_sec,
                  baselines.disk.randread.iops,
                  baselines.disk.read.bandwidth_kb,
                  baselines.network.bandwidth_mbps}
    IN  table \cup {[b EXCEPT !.higher_better = FALSE] : b \in table}

\* Values below, at, between, at and above the ends of a baseline.
Values(b) ==
    {Frac(b.min \div 2, 1), Frac(b.min, 1), Frac(2 * b.min + 1, 2), Frac(b.min + 1, 1),
     Frac((b.min + b.max) \div 2, 1), Frac(b.max - 1, 1), Frac(b.max, 1),
     Frac(2 * b.max, 1)}

\* Two values to normalize against one baseline.
InitValue ==
    /\ arguments \in UNION {{[v1 |-> v1, v2 |-> v2, min_val |-> b.min, max_val |-> b.max,
                               higher_better |-> b.higher_better] :
                                 v1 \in Values(b), v2 \in Values(b)} :
                             b \in ValueBaselines}
    /\ scores = <<>>
    /\ normalizer = [baselines |-> baselines]
    /\ calls = <<>>
    /\ systems = <<>>
    /\ recommendations = <<>>
    /\ report = [status |-> "none"]
    /\ config = [cpu |-> [enabled |-> TRUE], memory |-> [enabled |-> TRUE],
                 disk |-> [enabled |-> TRUE],
                 network |-> [enabled |-> FALSE, server_ip |-> ""],
                 runs |-> MaxRuns]
    /\ results = EmptyDict
    /\ normalized_results = EmptyDict
    /\ files = EmptyDict
    /\ pc = "cpu"
    /\ all_results = <<>>
    /\ result = EmptyDict
    /\ process = EmptyDict
    /\ test_idx = 1
    /\ disk_all_results = EmptyDict

\* normalize_value called for each of the two values.
normalize_value_twice ==
    /\ scores = <<>>
    /\ scores' = <<normalize_value(arguments.v1, arguments.min_val, arguments.max_val,
                                   arguments.higher_better),
                   normalize_value(arguments.v2, arguments.min_val, arguments.max_val,
                                   arguments.higher_better)>>
    /\ UNCHANGED <<arguments, normalizer, calls>>
    /\ UNCHANGED controller_vars
    /\ UNCHANGED planner_vars

NextValue == normalize_value_twice

SpecValue == InitValue /\ [][NextValue]_vars

\* ------------------------------------------------- aggregate_results alone
\* The records parse_output can return for sysbench cpu: any of the fields may
\* be missing from the output.
CPURecords ==
    {EmptyDict, [events_per_second |-> 5500, latency_avg_ms |-> 2]} \cup
    {[events_per_second |-> v] : v \in {0, 5500, 5601}}

\* The records parse_output can return for iperf3.
NetworkRecords ==
    {[protocol |-> "tcp"]} \cup
    {[protocol |-> "tcp", bandwidth_mbps |-> v, bytes_transferred |-> 6256,
      retransmits |-> r] : v \in {3340, 5005}, r \in {0, 3}}

\* The sequences of at most n elements of S.
SeqsUpTo(S, n) == UNION {[1..k -> S] : k \in 0..n}

\* run of the cpu or of the network benchmark when its last single test has
\* returned: num_runs records, none of them an error record.
InitAggregate ==
    /\ pc \in {"cpu_run", "network_run"}
    /\ all_results \in SeqsUpTo(IF pc = "cpu_run" THEN CPURecords ELSE NetworkRecords,
                                 MaxRuns)
    /\ config = [cpu |-> [enabled |-> pc = "cpu_run"], memory |-> [enabled |-> FALSE],
                 disk |-> [enabled |-> FALSE],
                 network |-> [enabled |-> pc = "network_run", server_ip |-> "10.0.0.2"],
                 runs |-> Len(all_results)]
    /\ result = IF all_results = <<>> THEN EmptyDict ELSE all_results[Len(all_results)]
    /\ process = EmptyDict
    /\ results = EmptyDict
    /\ normalized_results = EmptyDict
    /\ files = EmptyDict
    /\ test_idx = 1
    /\ disk_all_results = EmptyDict
    /\ systems = <<>>
    /\ recommendations = <<>>
    /\ report = [status |-> "none"]
    /\ arguments = EmptyDict
    /\ scores = <<>>
    /\ normalizer = [baselines |-> baselines]
    /\ calls = <<>>

NextAggregate ==
    \/ CPUBenchmark_run
    \/ NetworkBenchmark_run

SpecAggregate == InitAggregate /\ [][NextAggregate]_vars

\* ------------------------------------- normalize calls on one DataNormalizer
\* The statements of normalize, in order: one for each domain, the overall
\* score, and the return.
Statements == <<"cpu", "memory", "disk", "network", "overall_score", "return">>

\* normalize_cpu, normalize_memory, normalize_disk or normalize_network.
normalize_domain(domain, domain_results) ==
    CASE domain = "cpu" -> normalize_cpu(domain_results)
      [] domain = "memory" -> normalize_memory(domain_results)
      [] domain = "disk" -> normalize_disk(domain_results)
      [] domain = "network" -> normalize_network(domain_results)

\* One dict that every call works on, as an attribute of the normalizer would
\* be.
working_shared(all_calls, t) == all_calls[1].normalized

\* The dict a call works on: normalized, a local of normalize.
working(all_calls, t) == all_calls[t].normalized

\* The inputs of the calls.
ConcurrentInputs ==
    {[cpu |-> OneRun("events_per_second", 5500)],
     [cpu |-> TimedOut, memory |-> OneRun("transfer_rate_mib_sec", 25500)],
     [network |-> NoMetric],
     Measured(8020, 40200, 80020, 4002000, 8002)}

\* Two calls of normalize on different inputs, neither of which has begun.
InitConcurrent ==
    /\ normalizer = [baselines |-> baselines]
    /\ calls \in {<<[results |-> a, normalized |-> EmptyDict, at |-> 1],
                     [results |-> b, normalized |-> EmptyDict, at |-> 1]>> :
                       a \in ConcurrentInputs, b \in ConcurrentInputs} \
                  {<<[results |-> a, normalized |-> EmptyDict, at |-> 1],
                     [results |-> a, normalized |-> EmptyDict, at |-> 1]>> :
                       a \in ConcurrentInputs}
    /\ arguments = EmptyDict
    /\ scores = <<>>
    /\ systems = <<>>
    /\ recommendations = <<>>
    /\ report = [status |-> "none"]
    /\ config = [cpu |-> [enabled |-> TRUE], memory |-> [enabled |-> TRUE],
                 disk |-> [enabled |-> TRUE],
                 network |-> [enabled |-> FALSE, server_ip |-> ""],
                 runs |-> MaxRuns]
    /\ results = EmptyDict
    /\ normalized_results = EmptyDict
    /\ files = EmptyDict
    /\ pc = "cpu"
    /\ all_results = <<>>
    /\ result = EmptyDict
    /\ process = EmptyDict
    /\ test_idx = 1
    /\ disk_all_results = EmptyDict

\* Call t executes its next statement.
normalize_statement(t) ==
    /\ Statements[calls[t].at] # "return"
    /\ LET call == calls[t]
           key == Statements[call.at]
           normalized == working(calls, t)
           after == IF key = "overall_score"
                    THEN Put(normalized, key, calculate_overall_score(normalized))
                    ELSE IF Has(call.results, key)
                         THEN Put(normalized, key,
                                  normalize_domain(key, call.results[key]))
                         ELSE normalized
       IN  calls' = [calls EXCEPT ![t] = [results |-> call.results,
                                          normalized |-> after,
                                          at |-> call.at + 1]]
    /\ UNCHANGED <<arguments, scores, normalizer>>
    /\ UNCHANGED controller_vars
    /\ UNCHANGED planner_vars

NextConcurrent == \E t \in 1..2 : normalize_statement(t)

SpecConcurrent == InitConcurrent /\ [][NextConcurrent]_vars

\* ------------------------------------------------------------------ claims
\* The run-set of a domain has just ended: run has returned and the next
\* benchmark has not started.
RunSetEnded(domain) ==
    CASE domain = "cpu" -> pc = "memory" /\ config.cpu.enabled
      [] domain = "memory" -> pc = "disk" /\ config.memory.enabled
      [] domain = "network" ->
            pc = "normalize" /\ config.network.enabled /\ config.network.server_ip # ""

\* C1: in every run-set (cpu, memory, network, each disk pattern) in which a run
\* yielded an error record, the result reported for the run-set is that error
\* record, never statistics of the runs that succeeded before it.
C1_FirstErrorIsReported ==
    /\ \A d \in {"cpu", "memory", "network"} :
          (RunSetEnded(d) /\ Has(result, "error")) => results[d] = result
    /\ (pc = "disk_next" /\ Has(result, "error")) =>
          disk_all_results[Patterns[test_idx]] = result

\* C2: in every recommendation of the ranking, cost_performance_ratio is cost
\* divided by workload_score when the system has a cost and its score is
\* positive, and is absent (None) in every other case.
C2_RatioIsCostPerScore ==
    \A i \in 1..Len(recommendations) :
        LET r == recommendations[i]
        IN  IF Truthy(r.cost) /\ r.workload_score > 0
            THEN r.cost_performance_ratio
                    = <<Reduced(100 * r.cost[1], r.workload_score)>>
            ELSE r.cost_performance_ratio = <<>>

\* C3: the best-value system of a report is one with the smallest cost per
\* score point among the recommendations with a known cost and a score > 0
\* (for A: score 80, cost 1000 and B: score 60, cost 500 it is B), and none is
\* reported when no recommendation qualifies.
C3_BestValueIsCheapestPerPoint ==
    report.status = "written" =>
        LET recs == report.ranked
            qualify == {i \in 1..Len(recs) :
                           Truthy(recs[i].cost) /\ recs[i].workload_score > 0}
        IN  IF qualify = {} THEN report.best_value = <<>>
            ELSE \E i \in qualify :
                    /\ report.best_value = <<recs[i].system>>
                    /\ \A j \in qualify :
                          recs[i].cost[1] * recs[j].workload_score
                              <= recs[j].cost[1] * recs[i].workload_score

\* normalize has run: normalized_results is its output for results.
Normalized == pc \in {"report", "done"}

Abs(x) == IF x < 0 THEN 0 - x ELSE x

\* The domains of the normalized result (overall_score is not one).
PresentDomains == Domains \cap DOMAIN normalized_results

\* The present domains whose entry is not an error payload.
ErrorFreeDomains == {d \in PresentDomains : ~Has(normalized_results[d], "error")}

\* The score a domain of the normalized result carries (disk: average_score).
DomainScore(d) ==
    IF d = "disk" THEN normalized_results[d]["average_score"]
    ELSE normalized_results[d]["score"]

\* x is the mean of the scores of the domains S weighted by the fixed weights
\* 0.3 / 0.2 / 0.3 / 0.2 and divided by the sum of the weights of S, to the two
\* decimals overall_score is rounded to; 0 for no domain.
IsWeightedMean(x, S) ==
    LET total == SumOver([d \in S |-> DomainScore(d) * weights[d]], S)
        weight == SumOver([d \in S |-> weights[d]], S)
    IN  IF S = {} THEN x = 0 ELSE 2 * Abs(x * weight - total) <= weight

\* C4: overall_score is computed over the present, error-free domains only: a
\* domain whose entry is an error payload adds nothing to the weighted sum and
\* nothing to the weight denominator.
C4_ErroredDomainNotCounted ==
    Normalized => IsWeightedMean(normalized_results["overall_score"], ErrorFreeDomains)

\* The disk patterns of the input, and those of them that carry an error.
InputPatterns == PatternSet \cap DOMAIN results["disk"]

ErroredPatterns == {t \in InputPatterns : Has(results["disk"][t], "error")}

\* C5: when every disk pattern of the input carries an error, the disk entry
\* of the normalized result is an error passthrough without a numeric
\* average_score.
C5_AllErrorDiskIsError ==
    (Normalized /\ Has(results, "disk") /\ InputPatterns # {}
        /\ ErroredPatterns = InputPatterns)
    => /\ Has(normalized_results["disk"], "error")
       /\ ~Has(normalized_results["disk"], "average_score")

InRange(x) == x >= 0 /\ x <= 10000

\* C6: every score normalize puts out (cpu, memory, network, each disk pattern,
\* the disk average_score, overall_score) lies in [0, 100], whatever the raw
\* value: below the baseline minimum, above its maximum, or missing.
C6_ScoresInRange ==
    Normalized =>
        /\ InRange(normalized_results["overall_score"])
        /\ \A d \in PresentDomains \ {"disk"} :
              Has(normalized_results[d], "score") =>
                  InRange(normalized_results[d]["score"])
        /\ Has(normalized_results, "disk") =>
              /\ InRange(normalized_results["disk"]["average_score"])
              /\ \A t \in PatternSet \cap DOMAIN normalized_results["disk"] :
                    Has(normalized_results["disk"][t], "score") =>
                        InRange(normalized_results["disk"][t]["score"])

\* The mean value the input gives for a domain's metric.
InputMean(d, metric) == results[d]["statistics"][metric]["mean"]

C6_Witness ==
    /\ Normalized
    /\ Has(results, "cpu") /\ Has(results, "memory") /\ Has(results, "network")
    /\ ~Has(results["cpu"], "error") /\ Has(results["cpu"]["statistics"], "events_per_second")
    /\ InputMean("cpu", "events_per_second").num
          < baselines.cpu.events_per_second.min * InputMean("cpu", "events_per_second").den
    /\ ~Has(results["memory"], "error")
    /\ InputMean("memory", "transfer_rate_mib_sec").num
          > baselines.memory.transfer_rate_mib_sec.max
              * InputMean("memory", "transfer_rate_mib_sec").den
    /\ results["network"] = NoMetric
    /\ normalized_results["cpu"]["score"] = 0
    /\ normalized_results["memory"]["score"] = 10000
    /\ normalized_results["network"]["score"] = 0

\* C7: overall_score is the mean of the present domains' scores (disk:
\* average_score) weighted 0.3 / 0.2 / 0.3 / 0.2 and divided by the sum of the
\* weights of the domains present, rounded to two decimals; for cpu and memory
\* alone it is (cpu * 0.3 + mem * 0.2) / 0.5, and for no domain it is 0.
C7_OverallIsWeightedMean ==
    (Normalized /\ ErrorFreeDomains = PresentDomains) =>
        /\ IsWeightedMean(normalized_results["overall_score"], PresentDomains)
        /\ PresentDomains = {"cpu", "memory"} =>
              normalized_results["overall_score"] =
                  RoundDiv(normalized_results["cpu"]["score"] * 3
                           + normalized_results["memory"]["score"] * 2, 5)
        /\ PresentDomains = {} => normalized_results["overall_score"] = 0

C7_Witness ==
    /\ Normalized
    /\ PresentDomains = {"cpu", "memory"}
    /\ ErrorFreeDomains = PresentDomains
    /\ normalized_results["cpu"]["score"] = 5455
    /\ normalized_results["memory"]["score"] = 5000
    /\ normalized_results["overall_score"] = 5273

\* run_all_benchmarks runs the domain under this configuration.
Runs(d) ==
    IF d = "network" THEN config.network.enabled /\ config.network.server_ip # ""
    ELSE config[d].enabled

\* The score calculate_overall_score reads from an entry: the one it carries,
\* and 0 for an entry without one.
EntryScore(d) ==
    LET key == IF d = "disk" THEN "average_score" ELSE "score"
    IN  IF Has(normalized_results[d], key) THEN normalized_results[d][key] ELSE 0

\* C8: a domain absent from the input of normalize (benchmark disabled, or
\* network enabled without a server address) is absent from the normalized
\* result, as an error and as a score, and its weight is no part of the
\* denominator of overall_score, which is the sum of the weights of the
\* domains of the input.
C8_AbsentDomainStaysAbsent ==
    /\ \A d \in Domains :
          ~Runs(d) => ~Has(results, d) /\ ~Has(normalized_results, d)
    /\ Normalized =>
          /\ DOMAIN normalized_results = (DOMAIN results) \cup {"overall_score"}
          /\ LET S == Domains \cap DOMAIN results
                 total == SumOver([d \in S |-> EntryScore(d) * weights[d]], S)
                 weight == SumOver([d \in S |-> weights[d]], S)
             IN  IF S = {} THEN normalized_results["overall_score"] = 0
                 ELSE 2 * Abs(normalized_results["overall_score"] * weight - total)
                         <= weight

C8_Witness ==
    /\ Normalized
    /\ config.network.enabled /\ config.network.server_ip = ""
    /\ ~config.memory.enabled
    /\ DOMAIN results = {"cpu", "disk"}
    /\ DOMAIN normalized_results = {"cpu", "disk", "overall_score"}
    /\ EntryScore("cpu") = 5455
    /\ EntryScore("disk") = 5000
    /\ normalized_results["overall_score"] > 5000

\* C9: an error-carrying input of cpu, memory or network is that domain's entry
\* of the normalized result, unchanged and without a score; an error-carrying
\* disk pattern is that pattern's entry, unchanged and without a score.
C9_ErrorPassesThrough ==
    Normalized =>
        /\ \A d \in (DOMAIN results) \ {"disk"} :
              Has(results[d], "error") =>
                  /\ normalized_results[d] = results[d]
                  /\ ~Has(normalized_results[d], "score")
        /\ Has(results, "disk") =>
              \A t \in ErroredPatterns :
                  /\ normalized_results["disk"][t] = results["disk"][t]
                  /\ ~Has(normalized_results["disk"][t], "score")

C9_Witness ==
    /\ Normalized
    /\ Has(results, "cpu") /\ Has(results["cpu"], "error")
    /\ Has(results, "memory") /\ Has(results["memory"], "error")
    /\ Has(results, "network") /\ Has(results["network"], "error")
    /\ Has(results, "disk") /\ "read" \in ErroredPatterns
    /\ normalized_results["cpu"] = TimedOut
    /\ Has(normalized_results["disk"]["write"], "score")

\* C10: the disk average_score is the arithmetic mean, to two decimals, of the
\* scores of exactly the patterns that are not errored: an errored pattern is
\* left out of the sum and of the count; randread 80, randwrite error,
\* read 60, write 40 give 60.
C10_DiskAverageOverScored ==
    (Normalized /\ Has(results, "disk")) =>
        LET scored == InputPatterns \ ErroredPatterns
            disk == normalized_results["disk"]
            sum == SumOver([t \in scored |-> disk[t]["score"]], scored)
        IN  /\ scored # {} =>
                  2 * Abs(disk["average_score"] * Cardinality(scored) - sum)
                      <= Cardinality(scored)
            /\ (/\ InputPatterns = PatternSet
                /\ ErroredPatterns = {"randwrite"}
                /\ disk["randread"]["score"] = 8000
                /\ disk["read"]["score"] = 6000
                /\ disk["write"]["score"] = 4000)
               => disk["average_score"] = 6000

C10_Witness ==
    /\ Normalized
    /\ Has(results, "disk")
    /\ InputPatterns = PatternSet
    /\ ErroredPatterns = {"randwrite"}
    /\ normalized_results["disk"]["randread"]["score"] = 8000
    /\ normalized_results["disk"]["read"]["score"] = 6000
    /\ normalized_results["disk"]["write"]["score"] = 4000
    /\ normalized_results["disk"]["average_score"] = 6000

\* The place of the system called name in the order of loading.
LoadIndex(name) == CHOOSE i \in 1..Len(systems) : systems[i].name = name

\* recs holds one recommendation for each system loaded, the higher workload
\* score first and, of two equal scores, the system loaded first.
RankedInLoadOrder(recs) ==
    /\ Len(recs) = Len(systems)
    /\ \A i \in 1..Len(systems) :
          Cardinality({j \in 1..Len(recs) : recs[j].system = systems[i].name}) = 1
    /\ \A i, j \in 1..Len(recs) :
          i < j =>
             /\ recs[i].workload_score >= recs[j].workload_score
             /\ recs[i].workload_score = recs[j].workload_score
                   => LoadIndex(recs[i].system) < LoadIndex(recs[j].system)

\* C11: recommend_for_workload returns exactly one recommendation per loaded
\* system, ordered by workload score descending; two systems with equal
\* workload score appear in the order in which they were loaded.  The steps
\* that leave systems alone are the requests; one for a known profile does not
\* return the empty list when systems are loaded.
C11_OnePerSystemDescendingStable ==
    [][/\ systems' = systems /\ recommendations' # <<>>
             => RankedInLoadOrder(recommendations')
       /\ \A workload_type \in DOMAIN workload_profiles :
             systems # <<>> /\ recommendations' = <<>>
                => ~recommend_for_workload(workload_type)]_vars

\* Two systems of equal workload score are ranked, the first loaded first.
C11_Witness ==
    /\ Len(systems) = 2
    /\ Len(recommendations) = 2
    /\ systems[1].normalized = systems[2].normalized
    /\ recommendations[1].workload_score = recommendations[2].workload_score
    /\ recommendations[1].workload_score > 0
    /\ recommendations[1].system = "A"
    /\ recommendations[2].system = "B"

\* The score a system has for a domain: its score (average_score for disk), 0
\* for a domain it lacks or whose entry carries no score.
SystemScore(system, d) ==
    LET key == IF d = "disk" THEN "average_score" ELSE "score"
    IN  IF d \in DOMAIN system.normalized /\ key \in DOMAIN system.normalized[d]
        THEN system.normalized[d][key]
        ELSE 0

\* The weight, in hundredths, a profile gives a domain.
ProfileWeight(profile, d) ==
    CASE d = "cpu" -> profile.cpu_weight
      [] d = "memory" -> profile.memory_weight
      [] d = "disk" -> profile.disk_weight
      [] d = "network" -> profile.network_weight

\* Score times weight, summed over the four domains, in ten-thousandths of a
\* point.
WeightedTotal(system, profile) ==
    SystemScore(system, "cpu") * ProfileWeight(profile, "cpu")
    + SystemScore(system, "memory") * ProfileWeight(profile, "memory")
    + SystemScore(system, "disk") * ProfileWeight(profile, "disk")
    + SystemScore(system, "network") * ProfileWeight(profile, "network")

\* The system of the example: cpu 90, memory 70, disk 50, network 40.
IsExampleSystem(system) ==
    /\ SystemScore(system, "cpu") = 9000
    /\ SystemScore(system, "memory") = 7000
    /\ SystemScore(system, "disk") = 5000
    /\ SystemScore(system, "network") = 4000

\* The score of the one system is the weighted total, rounded to hundredths,
\* and the example system scores example under compute_intensive.
ScoreIsWeightedTotal(workload_type, recs, example) ==
    LET system == systems[1]
        profile == workload_profiles[workload_type]
    IN  /\ 2 * Abs(recs[1].workload_score * 100 - WeightedTotal(system, profile)) <= 100
        /\ IsExampleSystem(system) /\ workload_type = "compute_intensive"
              => recs[1].workload_score = example

\* C12 as stated: calculate_workload_score is the sum over the four domains of
\* domain score times the profile's weight, a missing domain contributing 0
\* while its weight still counts, and compute_intensive on cpu 90, memory 70,
\* disk 50, network 40 gives 77.5.
C12_ExampleGives77_5 ==
    [][\A workload_type \in DOMAIN workload_profiles :
          recommend_for_workload(workload_type)
             => ScoreIsWeightedTotal(workload_type, recommendations', 7750)]_vars

\* C12, amended: calculate_workload_score is the sum over the four domains of
\* domain score times the profile's weight, a missing domain contributing 0
\* while its weight still counts, and compute_intensive on cpu 90, memory 70,
\* disk 50, network 40 gives 78.5 (54 + 17.5 + 5 + 2).
C12_ScoreIsWeightedSum ==
    [][\A workload_type \in DOMAIN workload_profiles :
          recommend_for_workload(workload_type)
             => ScoreIsWeightedTotal(workload_type, recommendations', 7850)]_vars

\* The example system has been scored for compute_intensive: only that
\* profile gives it 78.5.
C12_Witness ==
    /\ IsExampleSystem(systems[1])
    /\ Len(recommendations) = 1
    /\ recommendations[1].workload_score = 7850

\* meets is true exactly when the one system reaches every minimum of the
\* profile, and false when it lacks a domain whose minimum is positive.
MeetsEveryMinimum(workload_type, meets) ==
    LET system == systems[1]
        min_scores == workload_profiles[workload_type].min_scores
    IN  /\ meets <=> \A d \in Domains : SystemScore(system, d) >= min_scores[d] * 100
        /\ (\E d \in Domains : d \notin DOMAIN system.normalized /\ min_scores[d] > 0)
              => ~meets

\* C13: check_requirements returns true if and only if each of the four domain
\* scores (cpu, memory, disk average, network) is >= the profile's minimum for
\* that domain; a missing domain counts as score 0 and makes the result false
\* whenever that domain's threshold is positive.
C13_MeetsIffEveryMinimum ==
    [][\A workload_type \in DOMAIN workload_profiles :
          recommend_for_workload(workload_type)
             => MeetsEveryMinimum(workload_type,
                                  recommendations'[1].meets_requirements)]_vars

\* The example system, whose memory score equals the compute_intensive
\* minimum, is found to meet the requirements.
C13_Witness ==
    /\ IsExampleSystem(systems[1])
    /\ Len(recommendations) = 1
    /\ recommendations[1].meets_requirements

\* subprocess.run failed: it raised (tool missing, timeout), or the tool exited
\* with a returncode other than 0.
FailedInvocation(p) == Has(p, "raised") \/ p.returncode # 0

\* C14: every failed single benchmark invocation (tool missing, timeout,
\* non-zero exit, unparsable output) is returned by run_single_test as an error
\* record, a record with an error key and no metric data, for each of the four
\* benchmark classes; never as a successful, possibly empty, metrics record.
C14_FailedInvocationIsErrorRecord ==
    process # EmptyDict /\ FailedInvocation(process) => DOMAIN result = {"error"}

\* C15: no operation of the planner raises for any set of loaded systems and
\* any profile name: recommend_for_workload, calculate_workload_score,
\* check_requirements and generate_recommendation_report all complete, also
\* when a system that has a cost has workload score 0 and when a system's
\* domain entry is an error payload.
C15_NoOperationRaises == report.status # "raised"

\* C16: requesting an unknown workload profile name returns an empty
\* recommendation list without computing any score and without changing the
\* loaded systems (the report says there are no recommendations), and a
\* request for a known profile on the same planner, whatever was requested
\* before, returns its full ranking: never the empty list when systems are
\* loaded, and every list returned has one entry for each system.
C16_UnknownProfileIsEmpty ==
    [][/\ \A workload_type \in WorkloadTypes \ DOMAIN workload_profiles :
             /\ recommend_for_workload(workload_type) =>
                   systems' = systems /\ recommendations' = <<>>
             /\ generate_recommendation_report(workload_type) =>
                   /\ systems' = systems
                   /\ recommendations' = <<>>
                   /\ report' = [status |-> "no recommendations"]
       /\ \A workload_type \in DOMAIN workload_profiles :
             systems # <<>> /\ recommendations' = <<>>
                => /\ ~recommend_for_workload(workload_type)
                   /\ ~generate_recommendation_report(workload_type)
       /\ systems' = systems /\ recommendations' # <<>>
             => Len(recommendations') = Len(systems)]_vars

\* A planner with systems, whose report was written, has answered a request
\* with the empty list: the profile requested was unknown.
C16_Witness ==
    /\ systems # <<>>
    /\ report.status = "written"
    /\ recommendations = <<>>

\* The metric normalize reads for a domain, or for a disk pattern.
PrimaryMetric(d) ==
    CASE d = "cpu" -> "events_per_second"
      [] d = "memory" -> "transfer_rate_mib_sec"
      [] d = "network" -> "bandwidth_mbps"
      [] d \in {"randread", "randwrite"} -> "iops"
      [] d \in {"read", "write"} -> "bandwidth_kb"

\* A successful run-set whose statistics have no mean for the metric, or None.
LacksValue(run_set, metric) ==
    /\ ~Has(run_set, "error")
    /\ LET stats == Get(run_set, "statistics", EmptyDict)
       IN  \/ ~Has(stats, metric)
           \/ ~Has(stats[metric], "mean")
           \/ stats[metric]["mean"] = None

\* An entry with score 0 and no error.
ScoredZero(entry) == ~Has(entry, "error") /\ Has(entry, "score") /\ entry["score"] = 0

\* C17: for a successful run-set whose statistics lack the domain's primary
\* metric, or whose value is None, normalize yields score 0 for that domain
\* (or disk pattern): the missing value is scored as worst case, not reported
\* as an error and not left out.
C17_MissingMetricScoresZero ==
    Normalized =>
       /\ \A d \in (Domains \ {"disk"}) \cap DOMAIN results :
             LacksValue(results[d], PrimaryMetric(d)) =>
                Has(normalized_results, d) /\ ScoredZero(normalized_results[d])
       /\ Has(results, "disk") =>
             \A t \in InputPatterns :
                LacksValue(results["disk"][t], PrimaryMetric(t)) =>
                   /\ Has(normalized_results["disk"], t)
                   /\ ScoredZero(normalized_results["disk"][t])

\* normalize has scored a cpu run-set without the metric, a memory run-set
\* whose mean is None and a disk pattern without the metric.
C17_Witness ==
    /\ Normalized
    /\ Has(results, "cpu") /\ results["cpu"] = NoMetric
    /\ Has(results, "memory") /\ results["memory"] = NoneMean("transfer_rate_mib_sec")
    /\ Has(results, "disk") /\ Has(results["disk"], "write")
    /\ results["disk"]["write"] = NoMetric
    /\ normalized_results["cpu"]["score"] = 0
    /\ normalized_results["memory"]["score"] = 0
    /\ normalized_results["disk"]["write"]["score"] = 0

\* normalize_value has returned for the two values.
Called == scores # <<>>

\* v is the whole number n.
IsWhole(v, n) == v.num = n * v.den

\* v lies in [min_val, max_val] of the call.
Inside(v) ==
    /\ arguments.min_val * v.den <= v.num
    /\ v.num <= arguments.max_val * v.den

\* v <= w for fractions with positive denominators.
FracLessEq(v, w) == v.num * w.den <= w.num * v.den

\* C18: for higher_better = true and any two values v1 <= v2 inside [min, max],
\* normalize_value(v1) <= normalize_value(v2), with normalize_value(min) = 0
\* and normalize_value(max) = 100.
C18_HigherBetterNonDecreasing ==
    Called /\ arguments.higher_better =>
       /\ Inside(arguments.v1) /\ Inside(arguments.v2)
             /\ FracLessEq(arguments.v1, arguments.v2) => scores[1] <= scores[2]
       /\ IsWhole(arguments.v1, arguments.min_val) => scores[1] = 0
       /\ IsWhole(arguments.v1, arguments.max_val) => scores[1] = 10000

\* A value half-way and the maximum have been scored, the maximum at 100 and
\* the other one lower.
C18_Witness ==
    /\ Called
    /\ arguments.higher_better
    /\ Inside(arguments.v1)
    /\ ~IsWhole(arguments.v1, arguments.min_val)
    /\ IsWhole(arguments.v2, arguments.max_val)
    /\ scores[1] > 0
    /\ scores[1] < scores[2]
    /\ scores[2] = 10000

\* C19: for every value v below min, normalize_value(v) equals
\* normalize_value(min), and for every v above max it equals
\* normalize_value(max); the result is never below 0 or above 100.
C19_ClampedToBoundary ==
    Called =>
       /\ arguments.v1.num < arguments.min_val * arguments.v1.den
             /\ IsWhole(arguments.v2, arguments.min_val) => scores[1] = scores[2]
       /\ arguments.v1.num > arguments.max_val * arguments.v1.den
             /\ IsWhole(arguments.v2, arguments.max_val) => scores[1] = scores[2]
       /\ InRange(scores[1])
       /\ InRange(scores[2])

\* Twice the maximum has been scored as the maximum is.
C19_Witness ==
    /\ Called
    /\ IsWhole(arguments.v1, 2 * arguments.max_val)
    /\ IsWhole(arguments.v2, arguments.max_val)
    /\ scores[1] = scores[2]

\* C20: for higher_better = false, normalize_value is monotonically
\* non-increasing in the value, with normalize_value(min) = 100 and
\* normalize_value(max) = 0.
C20_LowerBetterNonIncreasing ==
    Called /\ ~arguments.higher_better =>
       /\ FracLessEq(arguments.v1, arguments.v2) => scores[1] >= scores[2]
       /\ IsWhole(arguments.v1, arguments.min_val) => scores[1] = 10000
       /\ IsWhole(arguments.v1, arguments.max_val) => scores[1] = 0

\* With lower-is-better the minimum has been scored 100 and a larger value
\* inside the range less.
C20_Witness ==
    /\ Called
    /\ ~arguments.higher_better
    /\ IsWhole(arguments.v1, arguments.min_val)
    /\ Inside(arguments.v2)
    /\ scores[1] = 10000
    /\ scores[2] < 10000
    /\ scores[2] > 0

\* The run-set aggregated in SpecAggregate, and its statistics.
AggregatedDomain == IF config.cpu.enabled THEN "cpu" ELSE "network"

Aggregated == pc \in {"memory", "normalize"} /\ all_results # <<>>

AggregatedMetrics == IF config.cpu.enabled THEN CPUMetrics ELSE NetworkMetrics

\* The runs of the run-set that carry the metric, and their values.
Carrying(metric) == {i \in 1..Len(all_results) : Has(all_results[i], metric)}

ValueOf(metric) == [i \in Carrying(metric) |-> all_results[i][metric]]

\* n * (n - 1) times the sample variance of the values of the metric.
SquaredDeviations(metric) ==
    LET n == Cardinality(Carrying(metric))
        v == ValueOf(metric)
        sq == [i \in Carrying(metric) |-> v[i] * v[i]]
    IN  n * SumOver(sq, Carrying(metric))
        - SumOver(v, Carrying(metric)) * SumOver(v, Carrying(metric))

\* C21: in aggregate_results, a metric with fewer than 2 samples has stdev 0
\* and variance_percent 0 whatever the sample value is, and variance_percent
\* is 0 whenever the mean is <= 0; in every other case variance_percent equals
\* stdev / mean * 100, stdev being the sample standard deviation.
C21_VariancePercent ==
    Aggregated =>
       \A m \in DOMAIN results[AggregatedDomain]["statistics"] :
          LET st == results[AggregatedDomain]["statistics"][m]
              n == Cardinality(Carrying(m))
              total == SumOver(ValueOf(m), Carrying(m))
          IN  /\ n < 2 => st["stdev"] = Zero /\ st["variance_percent"] = ZeroVariance
              /\ total <= 0 => st["variance_percent"] = ZeroVariance
              /\ n >= 2 =>
                    st["stdev"].num * n * (n - 1) = SquaredDeviations(m) * st["stdev"].den
              /\ n >= 2 /\ total > 0 =>
                    /\ st["variance_percent"]["stdev"] = st["stdev"]
                    /\ st["variance_percent"]["mean"].num * n
                          = total * st["variance_percent"]["mean"].den

\* Two runs that differ have been aggregated: the variance is stdev over a
\* mean above 0.
C21_Witness ==
    /\ Aggregated
    /\ all_results = <<[events_per_second |-> 5500], [events_per_second |-> 5601]>>
    /\ results["cpu"]["statistics"]["events_per_second"]["stdev"].num > 0
    /\ results["cpu"]["statistics"]["events_per_second"]["variance_percent"]
          # ZeroVariance

C23_SystemsOnlyAppended ==
    [][/\ systems' # systems =>
             /\ Len(systems') = Len(systems) + 1
             /\ SubSeq(systems', 1, Len(systems)) = systems
             /\ \E normalized \in NormalizedFiles, cost \in Costs :
                   load_system(TRUE, normalized, cost)
       /\ recommendations' # recommendations \/ report' # report
             => systems' = systems]_vars

\* Two systems have been loaded one after the other, ranked and reported on.
C23_Witness ==
    /\ Len(systems) = 2
    /\ systems[1].name = "A"
    /\ systems[2].name = "B"
    /\ Len(recommendations) = 2
    /\ report.status = "written"

\* Call t has reached its return statement.
Returned(t) == Statements[calls[t].at] = "return"

\* C24: normalization keeps no mutable state across calls: for any
\* interleaving of two normalize calls on different inputs that share one
\* DataNormalizer, each call returns the same result as when it runs alone,
\* and the baseline table is the same before and after every call.
C24_CallsDoNotInterfere ==
    /\ normalizer.baselines = baselines
    /\ \A t \in 1..Len(calls) :
          Returned(t) => calls[t].normalized = normalize(calls[t].results)

\* The second call has run from beginning to end while the first one, on
\* another input, was under way.
C24_Witness ==
    /\ Len(calls) = 2
    /\ calls[1].at = 3
    /\ Returned(2)
    /\ calls[1].results = Measured(8020, 40200, 80020, 4002000, 8002)
    /\ calls[2].results = [cpu |-> TimedOut,
                           memory |-> OneRun("transfer_rate_mib_sec", 25500)]
    /\ calls[2].normalized["cpu"] = TimedOut

\* C25: for every built-in workload profile the four weights sum to 1.0, so
\* that for any system whose domain scores lie in [0,100] the workload score
\* lies in [0,100].
C25_WeightsSumToOne ==
    /\ \A workload_type \in DOMAIN workload_profiles :
          LET profile == workload_profiles[workload_type]
          IN  profile.cpu_weight + profile.memory_weight + profile.disk_weight
              + profile.network_weight = 100
    /\ \A i \in 1..Len(recommendations) :
          (\A d \in Domains : InRange(SystemScore(systems[1], d)))
             => InRange(recommendations[i].workload_score)

\* The system that scores 100 in every domain has been given workload score
\* 100.
C25_Witness ==
    /\ \A d \in Domains : SystemScore(systems[1], d) = 10000
    /\ Len(recommendations) = 1
    /\ recommendations[1].workload_score = 10000

\* The place of a domain in the order cpu, memory, disk, network, and the
\* place run has reached: normalization is 5, the reports 6, the end 7.
DomainStage(d) ==
    CASE d = "cpu" -> 1 [] d = "memory" -> 2 [] d = "disk" -> 3 [] d = "network" -> 4

Stage ==
    CASE pc \in {"cpu", "cpu_run"} -> 1
      [] pc \in {"memory", "memory_run"} -> 2
      [] pc \in {"disk", "disk_run", "disk_after", "disk_next"} -> 3
      [] pc \in {"network", "network_run"} -> 4
      [] pc = "normalize" -> 5
      [] pc = "report" -> 6
      [] pc = "done" -> 7

\* run_all_benchmarks runs the domain.
Enabled(d) ==
    IF d = "network" THEN config.network.enabled /\ config.network.server_ip # ""
    ELSE config[d].enabled

\* What run returns for cpu, memory or network: an error record, or the
\* aggregate of num_runs records (nothing at all for num_runs = 0).
CompleteRunSet(r) ==
    \/ Has(r, "error")
    \/ config.runs = 0 /\ r = EmptyDict
    \/ Has(r, "runs") /\ Len(r["runs"]) = config.runs

\* C26: BenchmarkController.run executes the enabled domain benchmarks
\* strictly one after another in the order CPU, memory, disk, network;
\* normalization starts only after every enabled benchmark has returned its
\* complete run-set result, and the raw/normalized JSON files and reports are
\* written only after normalization has completed.
C26_OneAfterAnother ==
    /\ \A d \in Domains :
          /\ Stage <= DomainStage(d) => ~Has(results, d)
          /\ Stage > DomainStage(d) => (Has(results, d) <=> Enabled(d))
          /\ Has(results, d) /\ d # "disk" => CompleteRunSet(results[d])
    /\ Has(results, "disk") /\ config.runs > 0 => DOMAIN results["disk"] = PatternSet
    /\ normalized_results # EmptyDict =>
          Stage >= 6 /\ Has(normalized_results, "overall_score")
    /\ Stage >= 6 => Has(normalized_results, "overall_score")
    /\ files # EmptyDict =>
          /\ Stage = 7
          /\ files["raw_results.json"] = results
          /\ files["normalized_results.json"] = normalized_results
    /\ Stage = 7 => files # EmptyDict

\* All four benchmarks have run and the files are written.
C26_Witness ==
    /\ pc = "done"
    /\ DOMAIN results = Domains
    /\ DOMAIN files["normalized_results.json"] = Domains \cup {"overall_score"}

\* A run-set is under way: run is between two single tests.
InRunSet == pc \in {"cpu_run", "memory_run", "network_run", "disk_run"}

\* Statistics over fewer or more than num_runs records.
PartialStatistics(r) == Has(r, "statistics") /\ Len(r["runs"]) # config.runs

\* C27: within one run-set (CPU, memory, network, or one disk pattern), once a
\* single test returns an error record no further single test of that run-set
\* is started, and at most num_runs single tests are ever started per run-set;
\* statistics are aggregated only when all num_runs tests of the run-set
\* succeeded.
C27_FailFastRunSet ==
    /\ InRunSet => ~Has(result, "error") /\ Len(all_results) <= config.runs
    /\ \A d \in (Domains \ {"disk"}) \cap DOMAIN results : ~PartialStatistics(results[d])
    /\ \A t \in DOMAIN disk_all_results : ~PartialStatistics(disk_all_results[t])

\* The domains whose benchmark returned an error record.
ErroredDomains == {d \in DOMAIN results : d # "disk" /\ Has(results[d], "error")}

\* C28: a domain benchmark that returns an error record does not stop the
\* suite: every later enabled domain is still run, normalization and report
\* generation still take place, and the error is recorded under that domain
\* in both the raw and the normalized results while the other domains keep
\* their scores.
C28_ErrorDoesNotStopSuite ==
    \A d \in ErroredDomains :
          /\ \A e \in Domains :
                DomainStage(e) > DomainStage(d) /\ Stage > DomainStage(e) /\ Enabled(e)
                   => Has(results, e)
          /\ Stage >= 6 =>
                /\ normalized_results[d] = results[d]
                /\ \A e \in DOMAIN results \ ErroredDomains :
                      /\ Has(normalized_results, e)
                      /\ normalized_results[e] = normalize_domain(e, results[e])
                      /\ Has(normalized_results[e],
                             IF e = "disk" THEN "average_score" ELSE "score")
          /\ Stage = 7 =>
                /\ files["raw_results.json"][d] = results[d]
                /\ files["normalized_results.json"][d] = results[d]
                /\ Has(files, "benchmark_report.txt")
                /\ Has(files, "benchmark_report.html")

\* The cpu benchmark timed out; memory, disk and network were run and scored,
\* and the files are written.
C28_Witness ==
    /\ pc = "done"
    /\ DOMAIN results = Domains
    /\ results["cpu"] = TimedOut
    /\ files["normalized_results.json"]["cpu"] = TimedOut
    /\ ~Has(results["memory"], "error")
    /\ ~Has(results["network"], "error")
    /\ files["normalized_results.json"]["memory"]["score"] = 5000
    /\ Has(files["normalized_results.json"]["network"], "score")

\* The first n patterns of test_types.
FirstPatterns(n) == {Patterns[i] : i \in 1..n}

\* C29: DiskBenchmark.run attempts the four I/O patterns in the order
\* randread, randwrite, read, write; an error in one pattern ends only that
\* pattern's run-set, every later pattern is still run, and for num_runs >= 1
\* the result has exactly one entry for each of the four patterns.
C29_EveryPatternInOrder ==
    /\ pc \in {"disk_run", "disk_after", "disk_next"} =>
          /\ test_idx \in 1..Len(Patterns)
          /\ config.runs >= 1 =>
                DOMAIN disk_all_results =
                   FirstPatterns(IF pc = "disk_run" THEN test_idx - 1 ELSE test_idx)
          /\ pc = "disk_after" =>
                /\ Has(result, "error")
                /\ Has(disk_all_results[Patterns[test_idx]], "error")
          /\ pc = "disk_run" => ~Has(result, "error")
    /\ Has(results, "disk") /\ config.runs >= 1 => DOMAIN results["disk"] = PatternSet

\* randread ended in an error, and the three later patterns were still run
\* to their statistics.
C29_Witness ==
    /\ Has(results, "disk")
    /\ config.runs >= 1
    /\ Has(results["disk"]["randread"], "error")
    /\ \A t \in PatternSet \ {"randread"} :
          /\ Has(results["disk"][t], "statistics")
          /\ Len(results["disk"][t]["runs"]) = config.runs

\* The systems the written report ranked: those loaded when it was generated.
Reported == 1..Len(report.ranked)

\* The workload score of the i-th loaded system under the report's profile.
ReportedScore(i) ==
    calculate_workload_score(systems[i], workload_profiles[report.workload_type])

\* The i-th loaded system fails the minimum requirements of the report's profile.
ReportedFailing(i) ==
    ~check_requirements(systems[i], workload_profiles[report.workload_type])

\* The names listed under "Systems NOT Meeting Requirements".
FailedNames == {report.failed[k] : k \in 1..Len(report.failed)}

\* C30: the Best Performance system named in the recommendation report is the
\* first entry of the ranking: a system with the maximum workload score over
\* all loaded systems (the earliest loaded among ties), whether or not it
\* meets the profile's minimum requirements; a system that fails the
\* requirements is additionally listed among the systems not meeting
\* requirements.
C30_BestPerformanceIsTopScore ==
    report.status = "written" =>
        /\ Len(report.ranked) \in 1..Len(systems)
        /\ report.best_performance = report.ranked[1].system
        /\ \E b \in Reported :
              /\ systems[b].name = report.best_performance
              /\ \A j \in Reported : ReportedScore(j) <= ReportedScore(b)
              /\ \A j \in 1..(b - 1) : ReportedScore(j) < ReportedScore(b)
        /\ \A i \in Reported : ReportedFailing(i) <=> systems[i].name \in FailedNames

\* Two systems tie at the top score under compute_intensive, whose cpu
\* minimum neither reaches: the first loaded is named Best Performance and is
\* also listed as not meeting requirements.
C30_Witness ==
    /\ report.status = "written"
    /\ report.workload_type = "compute_intensive"
    /\ Len(report.ranked) = 2
    /\ report.ranked[1].workload_score = report.ranked[2].workload_score
    /\ report.ranked[1].workload_score > 0
    /\ report.best_performance = systems[1].name
    /\ report.best_performance \in FailedNames

====
